---- MODULE Spec2Model ----
(***************************************************************************)
(* cachecat: a byte tunnel over a reflecting web cache.                    *)
(*                                                                         *)
(*   cachecat/cache.py    Cache      token -> bytes over HTTP GET           *)
(*   cachecat/session.py  Session    the shared token sequence ("stack")    *)
(*   cachecat/io.py       CacheReader, CacheWriter, CacheIO                 *)
(*                                                                         *)
(*   cachecat/__main__.py run, main  the command line tool                  *)
(*                                                                         *)
(* The specifications share the definitions below:                         *)
(*   SpecCache  clients calling Cache.__getitem__ / Cache.__setitem__       *)
(*   SpecSeq    one thread calling CacheReader.readinto and                 *)
(*              CacheWriter.write on a Session, a remote peer interfering   *)
(*   Spec       a CacheIO context (poll thread P, foreground thread F)      *)
(*              and a remote peer on the same channel                       *)
(*   SpecStop   an idle CacheIO context that is left, threads run fairly    *)
(*   SpecPair   two Session objects iterated independently                  *)
(*   SpecMain   main() and run() of the command line tool                   *)
(*   SpecErr    SpecSeq's calls against a target whose requests may fail    *)
(*   SpecWrite  CacheWriter.write on a small ring of tokens, run fairly     *)
(*                                                                         *)
(* Bytes are sequences over 0..255.  An optional value (Python's None or a *)
(* value) is a sequence of length at most one: <<>> is None, <<v>> is v.   *)
(***************************************************************************)
EXTENDS Integers, Sequences, FiniteSets, TLC

VARIABLES
    cache,        \* the web cache: token -> <<>> (not cached) or <<query>>
    hist,         \* ghost: per calling thread, the cache requests it made, in order
    max_step,     \* Session.max_step
    step,         \* Session.step of the local peer (shared by its Reader and Writer)
    chunk_size,   \* CacheWriter.chunk_size
    buffer_size,  \* buffer_size given to io.BufferedRWPair
    rstep,        \* Session.step of the remote peer
    ridx,         \* number of chunks the remote peer has stored
    buffer,       \* CacheIO._buffer: payloads captured by _handle
    lock,         \* CacheIO._buffer_lock: <<>> or <<thread>>
    wbuf,         \* bytes held by the BufferedWriter of the pair
    wlock,        \* the BufferedWriter's own lock: <<>> or <<thread>>
    event,        \* CacheIO.event (the stop flag)
    sink,         \* ghost: the arguments of the callback invocations, in order
    pc,           \* position of each thread
    ctx,          \* what the running Reader / Writer pass returns to
    tok,          \* local `token` of Session.__next__ per thread
    tmp,          \* value of self.step loaded by `self.step += 1` / `-= 1`
    acc,          \* poll thread: the bytes read so far in this iteration
    wdata,        \* argument `data` of the running CacheWriter.write
    wi,           \* loop variable `i` of CacheWriter.write
    pend,         \* value in flight: e.data for the consumers, or what readinto read
    arg,          \* argument of the running foreground call (bytes, or buffer b)
    nwrites,      \* number of CacheIO.write calls made by the foreground thread
    consumers,    \* CacheWriter._consumers
    calls,        \* ghost: completed direct calls of SpecSeq, in order
    ticks,        \* number of times event.wait(poll_interval) has timed out
    mainpc,       \* __main__: position of main() / run()
    args,         \* __main__: the parsed command line (kwargs of run)
    exc,          \* __main__: the exception run() ended with, "" for none
    exitcode,     \* __main__: exit status of the process, <<>> while it runs
    sessions,     \* SpecPair: the Session objects, each [port, step, max_step]
    yields,       \* SpecPair: per Session, the (step, token) pairs it returned
    accepted      \* ghost: the bytes CacheIO.write has accepted, in order

vars == <<cache, hist, max_step, step, chunk_size, buffer_size, rstep, ridx,
          buffer, lock, wbuf, wlock, event, sink, pc, ctx, tok, tmp, acc,
          wdata, wi, pend, arg, nwrites, consumers, calls,
          ticks, mainpc, args, exc, exitcode, sessions, yields, accepted>>

\* the variables of the command line, of the poll timer and of SpecPair,
\* and the record of what the stream was given to write
cliVars   == <<mainpc, args, exc, exitcode>>
pairVars  == <<sessions, yields>>
otherVars == <<ticks, cliVars, pairVars, accepted>>

(***************************************************************************)
(* Bounds of the model and inputs.                                         *)
(***************************************************************************)
StepBound == 4              \* steps 0..StepBound-1 may be taken by a session
MaxOps == 4                 \* SpecCache: number of requests
MaxCalls == 2               \* SpecSeq: number of direct calls
MaxWrites == 2              \* Spec: number of CacheIO.write calls
MaxTicks == 3               \* SpecStop: poll intervals that pass before the stop

Port == 1337                \* the channel of the examples
DEFAULT_CHUNK_SIZE == 1024  \* io.py
DEFAULT_MAX_STEP == 65535   \* 0xffff

None == <<>>
Some(v) == <<v>>

Min(a, b) == IF a < b THEN a ELSE b

RECURSIVE Concat(_)
Concat(ss) == IF ss = <<>> THEN <<>> ELSE Head(ss) \o Concat(Tail(ss))

Slice(s, i, n) == SubSeq(s, i + 1, Min(Len(s), i + n))   \* s[i:i+n]

IsPrefix(p, s) == Len(p) <= Len(s) /\ SubSeq(s, 1, Len(p)) = p

(***************************************************************************)
(* session.py: Session.token.  number = (port << max_step.bit_length())    *)
(* + step % max_step; the token is shortuuid.uuid(int_to_string(number)).  *)
(* The uuid of the digit string is kept as the number it is derived from.  *)
(***************************************************************************)
RECURSIVE bit_length(_)
bit_length(n) == IF n = 0 THEN 0 ELSE 1 + bit_length(n \div 2)

\* the step is taken as it is, without divmod
token_nowrap(port, s, ms) == port * (2 ^ bit_length(ms)) + s

token(port, s, ms) == port * (2 ^ bit_length(ms)) + (s % ms)

Tokens == { token(Port, s, DEFAULT_MAX_STEP) : s \in 0..StepBound }

(***************************************************************************)
(* base64.urlsafe_b64encode / urlsafe_b64decode on the 64 digit values     *)
(* 0..63; Pad is "=".                                                      *)
(***************************************************************************)
Pad == 64

RECURSIVE urlsafe_b64encode(_)
urlsafe_b64encode(b) ==
    IF Len(b) = 0 THEN <<>>
    ELSE IF Len(b) = 1 THEN
        << b[1] \div 4, (b[1] % 4) * 16, Pad, Pad >>
    ELSE IF Len(b) = 2 THEN
        << b[1] \div 4, (b[1] % 4) * 16 + b[2] \div 16, (b[2] % 16) * 4, Pad >>
    ELSE
        << b[1] \div 4, (b[1] % 4) * 16 + b[2] \div 16,
           (b[2] % 16) * 4 + b[3] \div 64, b[3] % 64 >>
        \o urlsafe_b64encode(SubSeq(b, 4, Len(b)))

\* binascii.Error (a ValueError) on a string that is no padded base64
b64valid(m) ==
    /\ Len(m) % 4 = 0
    /\ \A i \in 1..Len(m) :
         m[i] = Pad => /\ i >= Len(m) - 1
                       /\ (i = Len(m) - 1 => m[Len(m)] = Pad)

RECURSIVE urlsafe_b64decode(_)
urlsafe_b64decode(m) ==
    IF Len(m) = 0 THEN <<>>
    ELSE LET b1 == m[1] * 4 + m[2] \div 16
             b2 == (m[2] % 16) * 16 + (IF m[3] = Pad THEN 0 ELSE m[3] \div 4)
             b3 == (IF m[3] = Pad THEN 0 ELSE (m[3] % 4) * 64) + (IF m[4] = Pad THEN 0 ELSE m[4])
         IN  (IF m[3] = Pad THEN << b1 >>
              ELSE IF m[4] = Pad THEN << b1, b2 >>
              ELSE << b1, b2, b3 >>)
             \o urlsafe_b64decode(SubSeq(m, 5, Len(m)))

(***************************************************************************)
(* The target: a page that reflects the request URL in a cached response.  *)
(* The token parameter is cache-keyed, the slot parameter is not: the      *)
(* first request for a token is a MISS and its response (with whatever     *)
(* query it carried) is what every later request for that token gets back  *)
(* as a HIT.  A query is a record with field key and, when the request     *)
(* carried one, field slot.                                                *)
(***************************************************************************)
request(c, query) ==
    LET t == query.key IN
    IF c[t] = None
    THEN [ cache |-> [c EXCEPT ![t] = Some(query)], status |-> "MISS", text |-> query ]
    ELSE [ cache |-> c, status |-> "HIT", text |-> c[t][1] ]

\* urllib.parse.parse_qsl: blank values are dropped (keep_blank_values=False)
parse_qsl(query) ==
    IF "slot" \in DOMAIN query /\ query.slot = <<>> THEN [ key |-> query.key ] ELSE query

\* cache.py: Cache._extract: the payload, or None (no return) on KeyError / ValueError
_extract(text) ==
    LET t == parse_qsl(text) IN
    IF "slot" \notin DOMAIN t THEN None             \* KeyError: payload is missing
    ELSE IF ~b64valid(t.slot) THEN None             \* ValueError: payload is corrupted
    ELSE Some(urlsafe_b64decode(t.slot))

\* cache.py: Cache.__getitem__
\* result: [cache, raised: "" or "NotCached", data: the returned value]
Cache_getitem(c, key) ==
    LET r == request(c, [ key |-> key ]) IN
    IF r.status # "HIT"
    THEN [ cache |-> r.cache, raised |-> "NotCached", data |-> None ]
    ELSE [ cache |-> r.cache, raised |-> "", data |-> _extract(r.text) ]

\* cache.py: Cache.__setitem__
\* result: [cache, raised: "" or "AlreadyCached", data: e.data]
Cache_setitem_noraise(c, key, value) ==
    LET r == request(c, [ key |-> key, slot |-> urlsafe_b64encode(value) ]) IN
    [ cache |-> r.cache, raised |-> "", data |-> None ]

Cache_setitem(c, key, value) ==
    LET r == request(c, [ key |-> key, slot |-> urlsafe_b64encode(value) ]) IN
    IF r.status = "HIT"
    THEN [ cache |-> r.cache, raised |-> "AlreadyCached", data |-> _extract(r.text) ]
    ELSE [ cache |-> r.cache, raised |-> "", data |-> None ]

\* Python truth value of an optional bytes value: None and b"" are false
Truthy(d) == d # None /\ d[1] # <<>>

\* the ghost record of one request
Req(who, op, key, value, r) ==
    [ who |-> who, op |-> op, tok |-> key, val |-> value,
      raised |-> r.raised, data |-> r.data ]

(***************************************************************************)
(* Inputs.                                                                 *)
(***************************************************************************)
\* what the remote peer writes, one chunk per CacheWriter.write: b"AAA", b"BB"
RemoteChunks == << <<65, 65, 65>>, <<66, 66>> >>
\* what the local peer writes
LocalData == { <<120>>, <<121, 122>>, <<120, 121, 122>> }
\* the buffers given to readinto
Buffers == { [ kind |-> "bytearray",  buf |-> <<0, 0>> ],
             [ kind |-> "memoryview", buf |-> <<0>> ],
             [ kind |-> "memoryview", buf |-> <<0, 0, 0, 0>> ] }

(***************************************************************************)
(* The state after construction.  Each specification starts from it with   *)
(* its own constructor arguments.                                          *)
(***************************************************************************)
Threads == { "P", "F" }

InitLocal(cs, bs, subs, pc0) ==
    /\ cache = [ t \in Tokens |-> None ]
    /\ hist = [ t \in Threads |-> <<>> ]
    /\ max_step = DEFAULT_MAX_STEP
    /\ step = 0
    /\ chunk_size = cs
    /\ buffer_size = bs
    /\ rstep = 0
    /\ ridx = 0
    /\ buffer = <<>>
    /\ lock = None
    /\ wbuf = <<>>
    /\ wlock = None
    /\ event = FALSE
    /\ sink = <<>>
    /\ pc = pc0
    /\ ctx = [ t \in Threads |-> "" ]
    /\ tok = [ t \in Threads |-> 0 ]
    /\ tmp = [ t \in Threads |-> 0 ]
    /\ acc = [ t \in Threads |-> <<>> ]
    /\ wdata = [ t \in Threads |-> <<>> ]
    /\ wi = [ t \in Threads |-> 0 ]
    /\ pend = [ t \in Threads |-> None ]
    /\ arg = <<>>
    /\ nwrites = 0
    /\ consumers = subs
    /\ calls = <<>>

\* no command line, no timer, no further Session objects
InitOther ==
    /\ ticks = 0
    /\ mainpc = ""
    /\ args = <<>>
    /\ exc = ""
    /\ exitcode = None
    /\ sessions = <<>>
    /\ yields = <<>>
    /\ accepted = <<>>

InitWith(cs, bs, subs, pc0) == InitLocal(cs, bs, subs, pc0) /\ InitOther

sessionVars == <<max_step, step, chunk_size, buffer_size, consumers>>
remoteVars  == <<rstep, ridx>>
ioVars      == <<buffer, lock, wbuf, wlock, event, sink>>
threadVars  == <<pc, ctx, tok, tmp, acc, wdata, wi, pend, arg, nwrites, calls>>

(***************************************************************************)
(* SpecCache: clients of one Cache object (examples/01_cache.py, the       *)
(* --check probe of __main__.run) get and set tokens in any order.         *)
(***************************************************************************)
CacheTokens == { token(Port, s, DEFAULT_MAX_STEP) : s \in 0..1 }
CacheValues == { <<>>, <<65>>, <<255, 254>>, <<72, 105, 33>>, <<0, 1, 2, 3>> }

ClientGet(t) ==
    /\ Len(hist["F"]) < MaxOps
    /\ LET r == Cache_getitem(cache, t) IN
         /\ cache' = r.cache
         /\ hist' = [hist EXCEPT !["F"] = Append(@, Req("client", "get", t, <<>>, r))]
    /\ UNCHANGED <<otherVars, sessionVars, remoteVars, ioVars, threadVars>>

ClientSet(t, v) ==
    /\ Len(hist["F"]) < MaxOps
    /\ LET r == Cache_setitem(cache, t, v) IN
         /\ cache' = r.cache
         /\ hist' = [hist EXCEPT !["F"] = Append(@, Req("client", "set", t, v, r))]
    /\ UNCHANGED <<otherVars, sessionVars, remoteVars, ioVars, threadVars>>

AllIdle == [ t \in Threads |-> "idle" ]

InitCache == InitWith(1, 1, <<>>, AllIdle)

NextCache ==
    \/ \E t \in CacheTokens : ClientGet(t)
    \/ \E t \in CacheTokens, v \in CacheValues : ClientSet(t, v)

SpecCache == InitCache /\ [][NextCache]_vars

\* the requests of the calling thread F, and their positions
log == hist["F"]
H == 1..Len(log)
IsGet(i) == log[i].op = "get"
IsSet(i) == log[i].op = "set"
SetOk(i) == IsSet(i) /\ log[i].raised = ""

(***************************************************************************)
(* C6: cache round trip.  If a set of b on a token completes without       *)
(* raising, every later get of that token returns exactly b.               *)
(* (The claim as stated; it fails for b = b"".)                            *)
(***************************************************************************)
C6_RoundTrip ==
    \A i \in H, j \in H :
        (i < j /\ SetOk(i) /\ IsGet(j) /\ log[j].tok = log[i].tok)
            => (log[j].raised = "" /\ log[j].data = Some(log[i].val))

(***************************************************************************)
(* C7: at most one set wins per token.  After a set that succeeded, every  *)
(* other set on the token raises AlreadyCached carrying the winner's       *)
(* payload, and no second set succeeds.                                    *)
(* (The claim as stated; the carried payload is None when the winner       *)
(* stored b"".)                                                            *)
(***************************************************************************)
C7_OneSetWins ==
    \A i \in H, j \in H :
        (i < j /\ SetOk(i) /\ IsSet(j) /\ log[j].tok = log[i].tok)
            => (log[j].raised = "AlreadyCached" /\ log[j].data = Some(log[i].val))

(***************************************************************************)
(* C8: destructive read.  A get on a token nobody requested before raises  *)
(* NotCached and occupies the token: every later set on it raises          *)
(* AlreadyCached with no payload and stores nothing, so every later get    *)
(* is a HIT without a payload.                                             *)
(***************************************************************************)
FirstOn(i) == \A k \in H : k < i => log[k].tok # log[i].tok

C8_DestructiveRead ==
    \A i \in H :
        (IsGet(i) /\ FirstOn(i)) =>
            /\ log[i].raised = "NotCached"
            /\ "slot" \notin DOMAIN cache[log[i].tok][1]
            /\ \A j \in H :
                 (i < j /\ log[j].tok = log[i].tok) =>
                    /\ IsSet(j) => (log[j].raised = "AlreadyCached" /\ log[j].data = None)
                    /\ IsGet(j) => (log[j].raised = "" /\ log[j].data = None)

\* a get on a fresh token, then a set of a non-empty value on it, then a get
C8_Witness ==
    \E i \in H, j \in H, k \in H :
        /\ i < j /\ j < k
        /\ IsGet(i) /\ FirstOn(i)
        /\ IsSet(j) /\ log[j].tok = log[i].tok /\ log[j].val # <<>>
        /\ IsGet(k) /\ log[k].tok = log[i].tok

(***************************************************************************)
(* A thread of the local peer runs Reader passes (CacheReader.readinto)    *)
(* and Writer passes (CacheWriter.write) over the one shared Session.      *)
(* ctx[t] names the caller the running pass returns to:                    *)
(*   "readinto"  a direct CacheReader.readinto(b)                 (reader)  *)
(*   "poll"      RawIOBase.readall under CacheIO._poll            (reader)  *)
(*   "write"     a direct CacheWriter.write(data)                 (writer)  *)
(*   "pflush"    self.flush() of CacheIO._poll                    (writer)  *)
(*   "overflow"  BufferedWriter.write flushing a full buffer      (writer)  *)
(*   "big"       BufferedWriter.write passing oversized data on   (writer)  *)
(*   "exit"      the flush of close() in CacheIO.__exit__         (writer)  *)
(***************************************************************************)
ReaderCtx == { "readinto", "poll" }
WriterCtx == { "write", "pflush", "overflow", "big", "exit" }

Goto(t, l) == pc' = [pc EXCEPT ![t] = l]

(***************************************************************************)
(* session.py: Session.__next__                                            *)
(*     token = self.token ; step = self.step ; self.step += 1              *)
(* Nothing makes the three statements one step: another thread of the peer *)
(* may run between the read of self.step for the token, the load of        *)
(* self.step by += and its store.  The local `step` only feeds log calls.  *)
(***************************************************************************)
advance_none(s) == s

\* a step is skipped
advance_twice(s) == s + 2

advance(s) == s + 1

Session_next_token(t) ==
    /\ pc[t] = "next1"
    /\ step < StepBound
    /\ tok' = [tok EXCEPT ![t] = token(Port, step, max_step)]
    /\ Goto(t, "next2")
    /\ UNCHANGED <<otherVars, cache, hist, sessionVars, remoteVars, ioVars,
                   ctx, tmp, acc, wdata, wi, pend, arg, nwrites, calls>>

Session_next_load(t) ==
    /\ pc[t] = "next2"
    /\ tmp' = [tmp EXCEPT ![t] = step]
    /\ Goto(t, "next3")
    /\ UNCHANGED <<otherVars, cache, hist, sessionVars, remoteVars, ioVars,
                   ctx, tok, acc, wdata, wi, pend, arg, nwrites, calls>>

Session_next_store(t) ==
    /\ pc[t] = "next3"
    /\ step' = advance(tmp[t])
    /\ tmp' = [tmp EXCEPT ![t] = 0]
    /\ Goto(t, "req")
    /\ UNCHANGED <<otherVars, cache, hist, max_step, chunk_size, buffer_size, consumers,
                   remoteVars, ioVars,
                   ctx, tok, acc, wdata, wi, pend, arg, nwrites, calls>>

(***************************************************************************)
(* io.py: CacheReader.readinto(b), one iteration of its for loop after     *)
(* Session.__next__: data = self.cache[token] and what follows.            *)
(***************************************************************************)
\* the type of b: RawIOBase.read hands readinto a bytearray
KindOf(t) == IF ctx[t] = "poll" THEN "bytearray" ELSE arg.kind

too_small_never(data, b) == FALSE

\* len(data) > len(b)
too_small(data, b) == Len(data) > Len(b)

\* b.clear(); b.extend(bytes(data))     /     b[:l] = data
fill(kind, b, data) ==
    IF kind = "bytearray" THEN data
    ELSE data \o SubSeq(b, Len(data) + 1, Len(b))

\* the record of a completed direct call; exc is the exception it ended with
CallRecord(ret) ==
    [ op |-> arg.op, kind |-> arg.kind, b0 |-> arg.b0, b1 |-> arg.buf,
      data |-> arg.data, cs |-> chunk_size,
      step0 |-> arg.step0, step1 |-> step,
      h0 |-> arg.h0, h1 |-> Len(hist["F"]), ret |-> ret, exc |-> "" ]

\* the callers that are direct calls of readinto / write
DirectCtx == { "readinto", "write" }

\* the exception is dropped and the loop over the session goes on
Propagate_retry(t, e, h) ==
    /\ calls' = calls
    /\ Goto(t, "next1")

\* an exception no except clause of readinto / write matches leaves the call:
\* a direct call ends with it, any other caller's thread ends with it
Propagate(t, e, h) ==
    /\ calls' = IF ctx[t] \in DirectCtx
                THEN Append(calls, [CallRecord(0) EXCEPT !.exc = e, !.h1 = h])
                ELSE calls
    /\ Goto(t, IF ctx[t] \in DirectCtx THEN "idle" ELSE "raised")

Reader_except_none(e) == FALSE

\* except NotCachedException as e:
Reader_except(e) == e = "NotCached"

Writer_except_none(e) == FALSE

\* except AlreadyCachedException as e:
Writer_except(e) == e = "AlreadyCached"

\* the pass ends at a response without data, as at a MISS
after_no_data_break == "rd_ret"

\* `if data:` is false: the body of the for statement has ended and the
\* statement takes the next (step, token) of the session
after_no_data == "next1"

Reader_get(t) ==
    /\ pc[t] = "req"
    /\ ctx[t] \in ReaderCtx
    /\ LET r == Cache_getitem(cache, tok[t]) IN
         /\ cache' = r.cache
         /\ hist' = [hist EXCEPT ![t] = Append(@, Req("reader", "get", tok[t], <<>>, r))]
         /\ IF r.raised # "" /\ ~Reader_except(r.raised)
            THEN /\ Propagate(t, r.raised, Len(hist[t]) + 1)
                 /\ UNCHANGED <<pend, arg>>
            ELSE /\ calls' = calls
                 /\ IF r.raised # ""
                    THEN \* except NotCachedException: break; return 0
                         /\ pend' = [pend EXCEPT ![t] = None]
                         /\ Goto(t, "rd_ret")
                         /\ arg' = arg
                    ELSE IF ~Truthy(r.data)
                    THEN \* `if data:` is false: the for loop goes on
                         /\ pend' = pend
                         /\ Goto(t, after_no_data)
                         /\ arg' = arg
                    ELSE IF KindOf(t) = "memoryview" /\ too_small(r.data[1], arg.buf)
                    THEN \* postpone the read
                         /\ pend' = [pend EXCEPT ![t] = None]
                         /\ Goto(t, "rew1")
                         /\ arg' = arg
                    ELSE /\ pend' = [pend EXCEPT ![t] = r.data]
                         /\ Goto(t, "rd_ret")
                         /\ arg' = IF ctx[t] = "poll" THEN arg
                                   ELSE [arg EXCEPT !.buf = fill(arg.kind, arg.buf, r.data[1])]
    /\ tok' = [tok EXCEPT ![t] = 0]
    /\ UNCHANGED <<otherVars, sessionVars, remoteVars, ioVars,
                   ctx, tmp, acc, wdata, wi, nwrites>>

\* self.session.step -= 1 : the load
Reader_rewind_load(t) ==
    /\ pc[t] = "rew1"
    /\ tmp' = [tmp EXCEPT ![t] = step]
    /\ Goto(t, "rew2")
    /\ UNCHANGED <<otherVars, cache, hist, sessionVars, remoteVars, ioVars,
                   ctx, tok, acc, wdata, wi, pend, arg, nwrites, calls>>

rewind_none(s) == s

rewind(s) == s - 1

\* self.session.step -= 1 : the store; return 0
Reader_rewind_store(t) ==
    /\ pc[t] = "rew2"
    /\ step' = rewind(tmp[t])
    /\ tmp' = [tmp EXCEPT ![t] = 0]
    /\ Goto(t, "rd_ret")
    /\ UNCHANGED <<otherVars, cache, hist, max_step, chunk_size, buffer_size, consumers,
                   remoteVars, ioVars,
                   ctx, tok, acc, wdata, wi, pend, arg, nwrites, calls>>

(***************************************************************************)
(* readinto returns len(data), or 0.  A direct call ends.  Under           *)
(* RawIOBase.readall (CacheIO.read() of the poll loop) a non-empty read    *)
(* is kept and readinto is called again; an empty one ends the read.       *)
(***************************************************************************)
Reader_return(t) ==
    /\ pc[t] = "rd_ret"
    /\ IF ctx[t] = "readinto"
       THEN /\ calls' = Append(calls,
                   CallRecord(IF pend[t] = None THEN 0 ELSE Len(pend[t][1])))
            /\ Goto(t, "idle")
            /\ arg' = <<>>
            /\ ctx' = [ctx EXCEPT ![t] = ""]
            /\ acc' = acc
       ELSE /\ UNCHANGED <<calls, arg>>
            /\ IF pend[t] = None
               THEN /\ Goto(t, "p_clear")
                    /\ ctx' = [ctx EXCEPT ![t] = ""]
                    /\ acc' = acc
               ELSE /\ Goto(t, "next1")
                    /\ ctx' = ctx
                    /\ acc' = [acc EXCEPT ![t] = @ \o pend[t][1]]
    /\ pend' = [pend EXCEPT ![t] = None]
    /\ UNCHANGED <<otherVars, cache, hist, sessionVars, remoteVars, ioVars,
                   tok, tmp, wdata, wi, nwrites>>

(***************************************************************************)
(* io.py: CacheWriter.write(data), one iteration of its inner for loop     *)
(* after Session.__next__: self.cache[token] = chunk and what follows.     *)
(***************************************************************************)
chunk_short(data, i, cs) == Slice(data, i, cs - 1)

\* chunk = data[i:i+self.chunk_size]
chunk_of(data, i, cs) == Slice(data, i, cs)

Writer_set(t) ==
    /\ pc[t] = "req"
    /\ ctx[t] \in WriterCtx
    /\ LET chunk == chunk_of(wdata[t], wi[t], chunk_size)
           r == Cache_setitem(cache, tok[t], chunk)
       IN
         /\ cache' = r.cache
         /\ hist' = [hist EXCEPT ![t] = Append(@, Req("writer", "set", tok[t], chunk, r))]
         /\ IF r.raised = ""
            THEN \* break: the next chunk, or return len(data)
                 /\ wi' = [wi EXCEPT ![t] = @ + chunk_size]
                 /\ Goto(t, IF wi[t] + chunk_size < Len(wdata[t]) THEN "next1" ELSE "wr_ret")
                 /\ UNCHANGED <<pend, calls>>
            ELSE IF ~Writer_except(r.raised)
            THEN /\ Propagate(t, r.raised, Len(hist[t]) + 1)
                 /\ UNCHANGED <<wi, pend>>
            ELSE IF Truthy(r.data)
            THEN \* if e.data: the consumers are called
                 /\ wi' = wi
                 /\ Goto(t, "handle")
                 /\ pend' = [pend EXCEPT ![t] = r.data]
                 /\ calls' = calls
            ELSE /\ wi' = wi
                 /\ Goto(t, "next1")
                 /\ UNCHANGED <<pend, calls>>
    /\ tok' = [tok EXCEPT ![t] = 0]
    /\ UNCHANGED <<otherVars, sessionVars, remoteVars, ioVars,
                   ctx, tmp, acc, wdata, arg, nwrites>>

(***************************************************************************)
(* for func in self._consumers: func(e.data).  The one consumer there is   *)
(* is CacheIO._handle: with self._buffer_lock: self._buffer.append(data).  *)
(***************************************************************************)
Writer_handle(t) ==
    /\ pc[t] = "handle"
    /\ IF consumers = <<>>
       THEN UNCHANGED buffer
       ELSE /\ lock = None
            /\ buffer' = Append(buffer, pend[t][1])
    /\ pend' = [pend EXCEPT ![t] = None]
    /\ Goto(t, "next1")
    /\ UNCHANGED <<otherVars, cache, hist, sessionVars, remoteVars,
                   lock, wbuf, wlock, event, sink,
                   ctx, tok, tmp, acc, wdata, wi, arg, nwrites, calls>>

(***************************************************************************)
(* CacheWriter.write returns len(data) to its caller.  A direct call ends. *)
(* Under the BufferedWriter of the pair the written bytes leave its        *)
(* buffer, and BufferedWriter.write goes on with the data that did not     *)
(* fit: data longer than the whole buffer is passed to the raw writer at   *)
(* once, other data is kept in the emptied buffer.                         *)
(***************************************************************************)
Writer_return(t) ==
    /\ pc[t] = "wr_ret"
    /\ IF ctx[t] = "overflow" /\ Len(arg) > buffer_size
       THEN /\ wbuf' = <<>>
            /\ wdata' = [wdata EXCEPT ![t] = arg]
            /\ wi' = [wi EXCEPT ![t] = 0]
            /\ ctx' = [ctx EXCEPT ![t] = "big"]
            /\ Goto(t, "next1")
            /\ UNCHANGED <<calls, wlock, arg>>
       ELSE /\ wdata' = [wdata EXCEPT ![t] = <<>>]
            /\ wi' = [wi EXCEPT ![t] = 0]
            /\ ctx' = [ctx EXCEPT ![t] = ""]
            /\ arg' = <<>>
            /\ CASE ctx[t] = "write" ->
                      /\ calls' = Append(calls, CallRecord(Len(wdata[t])))
                      /\ Goto(t, "idle")
                      /\ UNCHANGED <<wbuf, wlock>>
                 [] ctx[t] = "pflush" ->
                      /\ wbuf' = <<>>
                      /\ wlock' = None
                      /\ Goto(t, "p_wait")
                      /\ calls' = calls
                 [] ctx[t] = "overflow" ->
                      /\ wbuf' = arg
                      /\ wlock' = None
                      /\ Goto(t, "idle")
                      /\ calls' = calls
                 [] ctx[t] = "big" ->
                      /\ wbuf' = wbuf
                      /\ wlock' = None
                      /\ Goto(t, "idle")
                      /\ calls' = calls
                 [] ctx[t] = "exit" ->
                      /\ wbuf' = <<>>
                      /\ wlock' = None
                      /\ Goto(t, "f_done")
                      /\ calls' = calls
    /\ UNCHANGED <<otherVars, cache, hist, sessionVars, remoteVars,
                   buffer, lock, event, sink,
                   tok, tmp, acc, pend, nwrites>>

\* the steps of a thread inside a Reader or Writer pass
PassStep(t) ==
    \/ Session_next_token(t)
    \/ Session_next_load(t)
    \/ Session_next_store(t)
    \/ Reader_get(t)
    \/ Reader_return(t)
    \/ Writer_set(t)
    \/ Writer_handle(t)
    \/ Writer_return(t)

(***************************************************************************)
(* The remote peer: another process on the same channel with a Session of  *)
(* its own.  Each of its requests takes the next token of its Session: a   *)
(* set of the chunk its Writer is at (CacheWriter.write), or a get of its  *)
(* Reader (CacheReader.readinto).                                          *)
(*                                                                         *)
(* A remote request touches the cache only, so it commutes with every step *)
(* of the local peer that is not itself a request.  It is therefore taken  *)
(* only right before a local request, or while the local peer is at rest:  *)
(* every order of the requests at the cache is still produced.             *)
(***************************************************************************)
Resting == { "idle", "new", "enter", "p_done", "f_done", "f_join" }

RemoteTurn ==
    \/ \E t \in Threads : pc[t] = "req"
    \/ \A t \in Threads : pc[t] \in Resting

RemoteSet ==
    /\ RemoteTurn
    /\ ridx < Len(RemoteChunks)
    /\ rstep < StepBound
    /\ LET r == Cache_setitem(cache, token(Port, rstep, max_step), RemoteChunks[ridx + 1])
       IN
         /\ cache' = r.cache
         /\ ridx' = IF r.raised = "" THEN ridx + 1 ELSE ridx
    /\ rstep' = advance(rstep)
    /\ UNCHANGED <<otherVars, hist, sessionVars, ioVars, threadVars>>

RemoteGet ==
    /\ RemoteTurn
    /\ rstep < StepBound
    /\ cache' = Cache_getitem(cache, token(Port, rstep, max_step)).cache
    /\ rstep' = advance(rstep)
    /\ UNCHANGED <<otherVars, hist, ridx, sessionVars, ioVars, threadVars>>

(***************************************************************************)
(* SpecSeq: one thread uses a CacheReader and a CacheWriter on one Session *)
(* directly (examples/03_store.py), one call at a time, while the remote   *)
(* peer works on the same channel.                                         *)
(***************************************************************************)
CallReadinto(b) ==
    /\ pc["F"] = "idle"
    /\ Len(calls) < MaxCalls
    /\ arg' = [ op |-> "readinto", kind |-> b.kind, b0 |-> b.buf, buf |-> b.buf,
                data |-> <<>>, step0 |-> step, h0 |-> Len(hist["F"]) ]
    /\ ctx' = [ctx EXCEPT !["F"] = "readinto"]
    /\ Goto("F", "next1")
    /\ UNCHANGED <<otherVars, cache, hist, sessionVars, remoteVars, ioVars,
                   tok, tmp, acc, wdata, wi, pend, nwrites, calls>>

CallWrite(d) ==
    /\ pc["F"] = "idle"
    /\ Len(calls) < MaxCalls
    /\ arg' = [ op |-> "write", kind |-> "", b0 |-> <<>>, buf |-> <<>>,
                data |-> d, step0 |-> step, h0 |-> Len(hist["F"]) ]
    /\ ctx' = [ctx EXCEPT !["F"] = "write"]
    /\ wdata' = [wdata EXCEPT !["F"] = d]
    /\ wi' = [wi EXCEPT !["F"] = 0]
    \* range(0, len(data), chunk_size) is empty for b""
    /\ Goto("F", IF d = <<>> THEN "wr_ret" ELSE "next1")
    /\ UNCHANGED <<otherVars, cache, hist, sessionVars, remoteVars, ioVars,
                   tok, tmp, acc, pend, nwrites, calls>>

SeqData == LocalData \cup { <<>> }

InitSeq ==
    \E cs \in { 1, 2 }, subs \in { <<>>, << "_handle" >> } : InitWith(cs, 1, subs, AllIdle)

NextSeq ==
    \/ \E b \in Buffers : CallReadinto(b)
    \/ \E d \in SeqData : CallWrite(d)
    \/ PassStep("F")
    \/ Reader_rewind_load("F")
    \/ Reader_rewind_store("F")
    \/ RemoteSet
    \/ RemoteGet

SpecSeq == InitSeq /\ [][NextSeq]_vars

\* the completed calls, and the requests each one issued
K == 1..Len(calls)
ReqsOf(c) == SubSeq(log, c.h0 + 1, c.h1)
IsOkSet(r) == r.op = "set" /\ r.raised = ""
OkSets(rs) == SelectSeq(rs, IsOkSet)
IsWriterReq(r) == r.who = "writer"

\* readinto found the token of the step it was called at not cached
MissAtTop(c) ==
    /\ c.op = "readinto"
    /\ c.h1 > c.h0
    /\ log[c.h0 + 1].tok = token(Port, c.step0, max_step)
    /\ log[c.h0 + 1].raised = "NotCached"

(***************************************************************************)
(* C4 as stated: readinto called at step k with the token of step k a MISS *)
(* returns 0 and leaves session.step at k.                                 *)
(* (Fails: Session.__next__ has advanced the step before the get.)         *)
(***************************************************************************)
C4_StepStaysAtMiss ==
    \A i \in K : MissAtTop(calls[i]) =>
        (calls[i].ret = 0 /\ calls[i].step1 = calls[i].step0)

(***************************************************************************)
(* C4 amended: readinto called at step k with the token of step k a MISS   *)
(* returns 0, leaves b as it was, has requested the token of step k and no *)
(* other, and leaves session.step at k + 1.                                *)
(***************************************************************************)
C4_StackTop ==
    \A i \in K : MissAtTop(calls[i]) =>
        /\ calls[i].ret = 0
        /\ calls[i].b1 = calls[i].b0
        /\ calls[i].h1 = calls[i].h0 + 1
        /\ calls[i].step1 = calls[i].step0 + 1

\* a readinto at a step above 0 that met a MISS at once
C4_Witness ==
    \E i \in K : MissAtTop(calls[i]) /\ calls[i].step0 > 0

\* readinto was given a memoryview shorter than the payload at the current token
GatedRead(c) ==
    /\ c.op = "readinto"
    /\ c.kind = "memoryview"
    /\ c.h1 > c.h0
    /\ log[c.h0 + 1].tok = token(Port, c.step0, max_step)
    /\ log[c.h0 + 1].raised = ""
    /\ Truthy(log[c.h0 + 1].data)
    /\ Len(log[c.h0 + 1].data[1]) > Len(c.b0)

\* the readinto after c has room for payload d
RoomFor(c, d) ==
    /\ c.op = "readinto"
    /\ (c.kind = "memoryview" => Len(c.b0) >= Len(d))

(***************************************************************************)
(* C5: size-gated read.  readinto with a memoryview shorter than the HIT   *)
(* payload at the current token returns 0, leaves the buffer as it was and *)
(* session.step at its value before the call; a readinto that follows it   *)
(* with a buffer long enough requests the same token again, returns the    *)
(* length of the payload with the whole payload in the buffer, and leaves  *)
(* the step one higher.                                                    *)
(***************************************************************************)
C5_SizeGatedRead ==
    \A i \in K : GatedRead(calls[i]) =>
        LET c == calls[i]
            d == log[c.h0 + 1].data[1]
        IN  /\ c.ret = 0
            /\ c.b1 = c.b0
            /\ c.step1 = c.step0
            /\ c.h1 = c.h0 + 1
            /\ (i + 1 \in K /\ RoomFor(calls[i + 1], d)) =>
                 LET n == calls[i + 1] IN
                   /\ n.h1 = n.h0 + 1
                   /\ log[n.h0 + 1].tok = log[c.h0 + 1].tok
                   /\ n.ret = Len(d)
                   /\ SubSeq(n.b1, 1, Len(d)) = d
                   /\ n.step1 = c.step0 + 1

\* a gated read followed by a readinto with a memoryview that is long enough
C5_Witness ==
    \E i \in K :
        /\ GatedRead(calls[i])
        /\ i + 1 \in K
        /\ calls[i + 1].op = "readinto"
        /\ calls[i + 1].kind = "memoryview"
        /\ Len(calls[i + 1].b0) >= Len(log[calls[i].h0 + 1].data[1])

(***************************************************************************)
(* C9: chunking and write order.  CacheWriter.write(data) with chunk size  *)
(* c makes exactly ceil(len(data)/c) successful sets, the k-th of them     *)
(* storing data[(k-1)c : kc], and returns len(data); over all the writes   *)
(* of the peer the successful sets land on strictly increasing steps, in   *)
(* the order they were issued.                                             *)
(***************************************************************************)
C9_Chunking ==
    /\ \A i \in K : calls[i].op = "write" =>
         LET c == calls[i]
             ok == OkSets(ReqsOf(c))
         IN  /\ Len(ok) = (Len(c.data) + c.cs - 1) \div c.cs
             /\ \A k \in 1..Len(ok) : ok[k].val = Slice(c.data, (k - 1) * c.cs, c.cs)
             /\ c.ret = Len(c.data)
    /\ LET ok == OkSets(SelectSeq(log, IsWriterReq)) IN
         \A k \in 1..(Len(ok) - 1) : ok[k].tok < ok[k + 1].tok

\* two writes were made, one of several chunks, and one met an occupied token
C9_Witness ==
    /\ \E i \in K : /\ calls[i].op = "write"
                    /\ Len(calls[i].data) > calls[i].cs
                    /\ calls[i].h1 - calls[i].h0 > Len(OkSets(ReqsOf(calls[i])))
    /\ \A i \in K : calls[i].op = "write" /\ calls[i].data # <<>>
    /\ Len(calls) >= 2

(***************************************************************************)
(* Spec: the local peer runs a CacheIO context as __main__.run does:       *)
(*     with CacheIO(reader, writer, callback, interval) as stream:         *)
(*         while ...: stream.write(data)                                   *)
(* F is the thread that entered the context, P the thread of _poll.        *)
(***************************************************************************)

\* io.py: CacheIO.__enter__: self.event.clear(); self.thread.start()
CacheIO_enter ==
    /\ pc["F"] = "enter"
    /\ event' = FALSE
    /\ pc' = [pc EXCEPT !["F"] = "idle", !["P"] = "p_loop"]
    /\ UNCHANGED <<otherVars, cache, hist, sessionVars, remoteVars,
                   buffer, lock, wbuf, wlock, sink,
                   ctx, tok, tmp, acc, wdata, wi, pend, arg, nwrites, calls>>

(***************************************************************************)
(* stream.write(data): BufferedRWPair.write is BufferedWriter.write on the *)
(* CacheWriter.  Under the writer's lock: data that fits is only buffered; *)
(* otherwise the buffer is first written out through CacheWriter.write, in *)
(* the calling thread (see Writer_return for what follows).                *)
(***************************************************************************)
CacheIO_write(d) ==
    /\ pc["F"] = "idle"
    /\ nwrites < MaxWrites
    /\ wlock = None
    /\ nwrites' = nwrites + 1
    /\ accepted' = accepted \o d
    /\ IF Len(wbuf) + Len(d) <= buffer_size
       THEN /\ wbuf' = wbuf \o d
            /\ UNCHANGED <<wlock, pc, ctx, wdata, wi, arg>>
       ELSE /\ wlock' = << "F" >>
            /\ arg' = d
            /\ wi' = [wi EXCEPT !["F"] = 0]
            /\ Goto("F", "next1")
            /\ IF wbuf # <<>>
               THEN /\ ctx' = [ctx EXCEPT !["F"] = "overflow"]
                    /\ wdata' = [wdata EXCEPT !["F"] = wbuf]
               ELSE /\ ctx' = [ctx EXCEPT !["F"] = "big"]
                    /\ wdata' = [wdata EXCEPT !["F"] = d]
            /\ wbuf' = wbuf
    /\ UNCHANGED <<ticks, cliVars, pairVars, cache, hist, sessionVars, remoteVars,
                   buffer, lock, event, sink, tok, tmp, acc, pend, calls>>

\* io.py: CacheIO.__exit__: self.event.set()
CacheIO_exit_set ==
    /\ pc["F"] = "idle"
    /\ event' = TRUE
    /\ Goto("F", "f_join")
    /\ UNCHANGED <<otherVars, cache, hist, sessionVars, remoteVars,
                   buffer, lock, wbuf, wlock, sink,
                   ctx, tok, tmp, acc, wdata, wi, pend, arg, nwrites, calls>>

joined_any(p) == TRUE

\* threading.Thread.join returns once the thread has ended, by returning
\* from its target or by an exception that left it
joined(p) == p \in { "p_done", "raised" }

\* io.py: CacheIO.__exit__: self.thread.join()
CacheIO_exit_join ==
    /\ pc["F"] = "f_join"
    /\ joined(pc["P"])
    /\ Goto("F", "f_close")
    /\ UNCHANGED <<otherVars, cache, hist, sessionVars, remoteVars, ioVars,
                   ctx, tok, tmp, acc, wdata, wi, pend, arg, nwrites, calls>>

\* the pair is closed without flushing the write side
CacheIO_exit_close_noflush ==
    /\ pc["F"] = "f_close"
    /\ wlock = None
    /\ Goto("F", "f_done")
    /\ UNCHANGED <<otherVars, cache, hist, sessionVars, remoteVars, ioVars,
                   ctx, tok, tmp, acc, wdata, wi, pend, arg, nwrites, calls>>

\* io.py: CacheIO.__exit__: super().__exit__ closes the pair, which flushes
\* the write side through CacheWriter.write
CacheIO_exit_close ==
    /\ pc["F"] = "f_close"
    /\ wlock = None
    /\ IF wbuf = <<>>
       THEN /\ Goto("F", "f_done")
            /\ UNCHANGED <<wlock, ctx, wdata, wi>>
       ELSE /\ wlock' = << "F" >>
            /\ ctx' = [ctx EXCEPT !["F"] = "exit"]
            /\ wdata' = [wdata EXCEPT !["F"] = wbuf]
            /\ wi' = [wi EXCEPT !["F"] = 0]
            /\ Goto("F", "next1")
    /\ UNCHANGED <<otherVars, cache, hist, sessionVars, remoteVars,
                   buffer, lock, wbuf, event, sink,
                   tok, tmp, acc, pend, arg, nwrites, calls>>

(***************************************************************************)
(* io.py: CacheIO._poll                                                    *)
(***************************************************************************)
is_set_never(e) == FALSE

\* threading.Event.is_set
is_set(e) == e

not_data_never(d) == FALSE

\* if not data:
not_data(d) == d = <<>>

\* the lock is kept after the with statement
with_exit_keep(l) == l

\* the end of `with self._buffer_lock:` releases the lock
with_exit(l) == None

\* while not self.event.is_set(): the loop ends
Poll_stop ==
    /\ pc["P"] = "p_loop"
    /\ is_set(event)
    /\ Goto("P", "p_done")
    /\ UNCHANGED <<otherVars, cache, hist, sessionVars, remoteVars, ioVars,
                   ctx, tok, tmp, acc, wdata, wi, pend, arg, nwrites, calls>>

\* with self._buffer_lock: data = b"".join(self._buffer) + self.read() ...
\* the lock is taken, the buffer joined, and the read begins
Poll_begin ==
    /\ pc["P"] = "p_loop"
    /\ ~is_set(event)
    /\ lock = None
    /\ lock' = << "P" >>
    /\ acc' = [acc EXCEPT !["P"] = Concat(buffer)]
    /\ ctx' = [ctx EXCEPT !["P"] = "poll"]
    /\ Goto("P", "next1")
    /\ UNCHANGED <<otherVars, cache, hist, sessionVars, remoteVars,
                   buffer, wbuf, wlock, event, sink,
                   tok, tmp, wdata, wi, pend, arg, nwrites, calls>>

\* ... self._buffer.clear(); the lock is released; `if not data:`
Poll_clear ==
    /\ pc["P"] = "p_clear"
    /\ buffer' = <<>>
    /\ lock' = with_exit(lock)
    /\ Goto("P", IF not_data(acc["P"]) THEN "p_flush" ELSE "p_sink")
    /\ UNCHANGED <<otherVars, cache, hist, sessionVars, remoteVars,
                   wbuf, wlock, event, sink,
                   ctx, tok, tmp, acc, wdata, wi, pend, arg, nwrites, calls>>

\* self.flush(): the BufferedWriter writes its buffer out through CacheWriter.write
Poll_flush ==
    /\ pc["P"] = "p_flush"
    /\ wlock = None
    /\ IF wbuf = <<>>
       THEN /\ Goto("P", "p_wait")
            /\ UNCHANGED <<wlock, ctx, wdata, wi>>
       ELSE /\ wlock' = << "P" >>
            /\ ctx' = [ctx EXCEPT !["P"] = "pflush"]
            /\ wdata' = [wdata EXCEPT !["P"] = wbuf]
            /\ wi' = [wi EXCEPT !["P"] = 0]
            /\ Goto("P", "next1")
    /\ UNCHANGED <<otherVars, cache, hist, sessionVars, remoteVars,
                   buffer, lock, wbuf, event, sink,
                   tok, tmp, acc, pend, arg, nwrites, calls>>

\* self.event.wait(self.poll_interval) returns, by timeout or by the event
Poll_wait ==
    /\ pc["P"] = "p_wait"
    /\ Goto("P", "p_loop")
    /\ UNCHANGED <<otherVars, cache, hist, sessionVars, remoteVars, ioVars,
                   ctx, tok, tmp, acc, wdata, wi, pend, arg, nwrites, calls>>

\* self.callback(data)
Poll_sink ==
    /\ pc["P"] = "p_sink"
    /\ sink' = Append(sink, acc["P"])
    /\ acc' = [acc EXCEPT !["P"] = <<>>]
    /\ Goto("P", "p_loop")
    /\ UNCHANGED <<otherVars, cache, hist, sessionVars, remoteVars,
                   buffer, lock, wbuf, wlock, event,
                   ctx, tok, tmp, wdata, wi, pend, arg, nwrites, calls>>

\* what the foreground thread writes to the stream: b"x", b"yz"
StreamData == { <<120>>, <<121, 122>> }

\* after CacheIO.__init__: the thread is created, writer.subscribe(self._handle)
Init == InitWith(1, 1, << "_handle" >>, [ t \in Threads |-> IF t = "F" THEN "enter" ELSE "new" ])

Next ==
    \/ CacheIO_enter
    \/ \E d \in StreamData : CacheIO_write(d)
    \/ CacheIO_exit_set
    \/ CacheIO_exit_join
    \/ CacheIO_exit_close
    \/ Poll_stop
    \/ Poll_begin
    \/ Poll_clear
    \/ Poll_flush
    \/ Poll_wait
    \/ Poll_sink
    \/ \E t \in Threads : PassStep(t)
    \/ RemoteSet

Spec == Init /\ [][Next]_vars

(***************************************************************************)
(* What the stream of the local peer has done so far.                      *)
(***************************************************************************)
\* the requests of both threads of the local peer
LocalReqs == hist["P"] \o hist["F"]

\* a thread is inside a Reader or Writer pass
InPass(t) == pc[t] \in { "next1", "next2", "next3", "req", "handle", "rd_ret", "wr_ret" }

\* everything the sink callback has been given, in the order it was given
Sunk == Concat(sink)

\* the bytes of the remote peer's chunks among the bytes given to the sink
IsRemoteByte(b) == \E i \in 1..Len(RemoteChunks) : b = RemoteChunks[i][1]
RemoteSunk == SelectSeq(Sunk, IsRemoteByte)

\* how many times the sink was given the remote chunk v (the chunks of
\* RemoteChunks are made of different bytes)
Deliveries(v) == Cardinality({ i \in 1..Len(Sunk) : Sunk[i] = v[1] }) \div Len(v)

\* the local Writer's set met the payload v already stored at its token
IsCollision(r, v) == r.who = "writer" /\ r.raised = "AlreadyCached" /\ r.data = Some(v)

\* the context of the stream has exited
Exited == pc["F"] = "f_done"

\* C1: what the sink of the local stream has received of the remote peer's
\* writes is, at every moment, the beginning of the concatenation of the
\* remote peer's chunks in the order they were issued: nothing duplicated,
\* nothing out of order.
C1_OrderedDelivery == IsPrefix(RemoteSunk, Concat(RemoteChunks))

\* C2: when the local Writer's set for a step finds the remote peer's payload
\* already stored at that token, the local sink is given that payload never
\* more than once, and exactly once by the time the context has exited.
C2_CollisionOnce ==
    \A i \in 1..Len(LocalReqs) : \A n \in 1..Len(RemoteChunks) :
        IsCollision(LocalReqs[i], RemoteChunks[n]) =>
            /\ Deliveries(RemoteChunks[n]) <= 1
            /\ Exited => Deliveries(RemoteChunks[n]) = 1

\* C3: the poll thread's Reader and the foreground Writer never both issue a
\* request for the token of the same step, and once no pass is under way
\* every step below Session.step has had a request issued for its token.
C3_SessionSerialized ==
    /\ \A i, j \in 1..Len(LocalReqs) :
           LocalReqs[i].who # LocalReqs[j].who => LocalReqs[i].tok # LocalReqs[j].tok
    /\ (\A t \in Threads : ~InPass(t)) =>
           \A s \in 0..(step - 1) :
               \E i \in 1..Len(LocalReqs) : LocalReqs[i].tok = token(Port, s, max_step)

\* C10: once the context of the stream has exited, no payload handed to
\* CacheIO._handle is still waiting in the collision buffer.
C10_AllInboundDelivered == Exited => buffer = <<>>

(***************************************************************************)
(* Direct calls of readinto and write (SpecSeq): what a completed call     *)
(* did with the signals of the cache.                                      *)
(***************************************************************************)
\* the get met a token that is not cached / the set met a token that is
IsMiss(r) == r.op = "get" /\ r.raised = "NotCached"
IsOccupied(r) == r.op = "set" /\ r.raised = "AlreadyCached"

\* C11: no call of readinto or write ends with an exception of the cache;
\* a NotCached get is the last request of its readinto, which returns 0; an
\* AlreadyCached set is followed, in the same write, by a set of the same
\* chunk on the next token.
C11_SignalsHandled ==
    \A i \in K :
        LET c == calls[i]
            rs == ReqsOf(c)
        IN  /\ c.exc = ""
            /\ \A k \in 1..Len(rs) :
                 /\ IsMiss(rs[k]) => (k = Len(rs) /\ c.ret = 0)
                 /\ IsOccupied(rs[k]) =>
                      /\ k < Len(rs)
                      /\ rs[k + 1].op = "set"
                      /\ rs[k + 1].val = rs[k].val
                      /\ rs[k + 1].tok = rs[k].tok + 1

\* a readinto has ended on a MISS and a write has met an occupied token
C11_Witness ==
    /\ \E i \in K : calls[i].op = "readinto" /\ \E k \in 1..Len(ReqsOf(calls[i])) : IsMiss(ReqsOf(calls[i])[k])
    /\ \E i \in K : calls[i].op = "write" /\ \E k \in 1..Len(ReqsOf(calls[i])) : IsOccupied(ReqsOf(calls[i])[k])

\* the cached response at the token of request r carries the value r sent
Stored(r) ==
    cache[r.tok] = Some([ key |-> r.tok, slot |-> urlsafe_b64encode(r.val) ])

\* the chunks of a write, in order
ChunksOf(c) ==
    [ k \in 1..((Len(c.data) + c.cs - 1) \div c.cs) |-> Slice(c.data, (k - 1) * c.cs, c.cs) ]

\* the non-empty payloads the Writer's sets have met, in order
CarriesPayload(r) == IsOccupied(r) /\ r.data # None /\ r.data # Some(<<>>)
Met == SelectSeq(SelectSeq(log, IsWriterReq), CarriesPayload)
MetPayloads == [ k \in 1..Len(Met) |-> Met[k].data[1] ]

\* C15: every write ends with each of its chunks stored at exactly one token:
\* a set that met an occupied token stored nothing and is followed by a set
\* of the same chunk, the sets that succeeded are the chunks of the data in
\* order, each stored at its token; and every non-empty payload a set met
\* was handed once, in order, to the subscribed consumer.
C15_ChunkSurvives ==
    /\ \A i \in K : calls[i].op = "write" =>
         LET c == calls[i]
             rs == ReqsOf(c)
             ok == OkSets(rs)
         IN  /\ c.exc = ""
             /\ Len(rs) > 0 => IsOkSet(rs[Len(rs)])
             /\ [ k \in 1..Len(ok) |-> ok[k].val ] = ChunksOf(c)
             /\ \A k \in 1..Len(rs) :
                  /\ IsOkSet(rs[k]) => Stored(rs[k])
                  /\ IsOccupied(rs[k]) =>
                       /\ ~Stored(rs[k])
                       /\ k < Len(rs)
                       /\ rs[k + 1].val = rs[k].val
    /\ pc["F"] # "handle" =>
         buffer = IF consumers = <<>> THEN <<>> ELSE MetPayloads

\* a write of several chunks has completed, one of its sets met a payload
\* of the remote peer, and a consumer is subscribed
C15_Witness ==
    /\ consumers # <<>>
    /\ \E i \in K :
         /\ calls[i].op = "write"
         /\ Len(ChunksOf(calls[i])) >= 2
         /\ \E k \in 1..Len(ReqsOf(calls[i])) : CarriesPayload(ReqsOf(calls[i])[k])

(***************************************************************************)
(* SpecStop: a CacheIO context is entered, nothing is written on either    *)
(* side, and the context is left after at most MaxTicks poll intervals.    *)
(* The poll thread and the foreground thread are each scheduled fairly.    *)
(***************************************************************************)
\* self.event.wait(self.poll_interval): returns at once when the event is
\* set, by timeout otherwise; the foreground leaves the context before the
\* timeout has passed more than MaxTicks times
Poll_wait_timed ==
    /\ pc["P"] = "p_wait"
    /\ event \/ ticks < MaxTicks
    /\ ticks' = IF event THEN ticks ELSE ticks + 1
    /\ Goto("P", "p_loop")
    /\ UNCHANGED <<cache, hist, sessionVars, remoteVars, ioVars, cliVars, pairVars,
                   ctx, tok, tmp, acc, wdata, wi, pend, arg, nwrites, calls, accepted>>

InitStop ==
    \E cs \in { 1, 2 }, bs \in { 1, 2 } :
        InitWith(cs, bs, << "_handle" >>, [ t \in Threads |-> IF t = "F" THEN "enter" ELSE "new" ])

PollThread ==
    \/ Poll_stop
    \/ Poll_begin
    \/ Session_next_token("P")
    \/ Session_next_load("P")
    \/ Session_next_store("P")
    \/ Reader_get("P")
    \/ Reader_return("P")
    \/ Poll_clear
    \/ Poll_flush
    \/ Poll_wait_timed

Foreground ==
    \/ CacheIO_enter
    \/ CacheIO_exit_set
    \/ CacheIO_exit_join
    \/ CacheIO_exit_close

NextStop == PollThread \/ Foreground

SpecStop ==
    /\ InitStop
    /\ [][NextStop]_vars
    /\ WF_vars(PollThread)
    /\ WF_vars(Foreground)

\* C12: once the stop event is set, the poll thread ends and __exit__
\* returns; the poll thread never ends by an exception.
C12_Shutdown == event ~> (pc["P"] = "p_done" /\ Exited)

\* the context was left after the poll thread had waited out at least one
\* poll interval, and nothing was exchanged
C12_Witness == Exited /\ ticks > 0 /\ sink = <<>> /\ hist["F"] = <<>>

(***************************************************************************)
(* The poll loop and the exit of the context (Spec).                       *)
(***************************************************************************)
\* C17: the poll thread never holds the collision-buffer lock while a get of
\* its Reader pass is in progress.
C17_LockOnlyForBuffer == ~(lock = Some("P") /\ pc["P"] = "req" /\ ctx["P"] = "poll")

\* the requests of the poll thread's Reader pass that has just ended: those
\* after its last earlier request that ended a pass (a MISS) or was a set
EndsPass(r) == IsMiss(r) \/ r.who = "writer"
PassStart(h) ==
    IF \E j \in 1..(Len(h) - 1) : EndsPass(h[j])
    THEN (CHOOSE j \in 1..(Len(h) - 1) :
             EndsPass(h[j]) /\ \A k \in (j + 1)..(Len(h) - 1) : ~EndsPass(h[k])) + 1
    ELSE 1
HasPayload(r) == r.op = "get" /\ r.data # None /\ r.data # Some(<<>>)
PassReqs == SelectSeq(SubSeq(hist["P"], PassStart(hist["P"]), Len(hist["P"])), HasPayload)
PassBytes == Concat([ k \in 1..Len(PassReqs) |-> PassReqs[k].data[1] ])

\* C18: when the read of a poll iteration has ended, its result is the
\* buffered collision payloads in capture order followed by the bytes of the
\* Reader pass; the sink is reached only with a non-empty result and never
\* given empty bytes, the flush and the wait only with an empty one.
C18_PollResult ==
    /\ \A i \in 1..Len(sink) : sink[i] # <<>>
    /\ pc["P"] = "p_clear" => acc["P"] = Concat(buffer) \o PassBytes
    /\ pc["P"] = "p_sink" => acc["P"] # <<>>
    /\ (pc["P"] \in { "p_flush", "p_wait" } \/ ctx["P"] = "pflush") => acc["P"] = <<>>

\* the read of a poll iteration has ended with both buffered payloads and
\* bytes of the Reader pass, after the sink has already been called
C18_Witness ==
    /\ pc["P"] = "p_clear"
    /\ buffer # <<>>
    /\ PassBytes # <<>>
    /\ sink # <<>>

\* C19: session.step never decreases, except by the rewind of readinto,
\* which takes one off.
C19_StepMonotone ==
    [][step' >= step \/ (step' = step - 1 /\ \E t \in Threads : pc[t] = "rew2")]_vars

\* the foreground thread is closing the pair, or has closed it
Closing == pc["F"] \in { "f_close", "f_done" } \/ ctx["F"] = "exit"

\* C20: __exit__ sets the stop event first, and closes the pair only after
\* the poll thread has ended: once the close has begun the event is set and
\* the poll thread runs no more.
C20_ExitOrder ==
    /\ (pc["F"] = "f_join" \/ Closing) => event
    /\ Closing => pc["P"] = "p_done"

\* the close of the pair is flushing the write side after the poll thread
\* has made requests
C20_Witness ==
    /\ ctx["F"] = "exit"
    /\ pc["F"] = "req"
    /\ hist["P"] # <<>>

(***************************************************************************)
(* C16 (SpecCache): a get whose cached response yields no payload has the  *)
(* outcome of a get on a MISS: it raises NotCached.                        *)
(***************************************************************************)
C16_ExtractionFailureIsMiss ==
    \A i \in H : (IsGet(i) /\ log[i].data = None) => log[i].raised = "NotCached"

(***************************************************************************)
(* SpecPair: two Session objects built independently with the same port    *)
(* and max_step, each iterated by its own owner.                           *)
(***************************************************************************)
MaxSteps == { 2, 3, DEFAULT_MAX_STEP }
Ports == { Port, Port + 1 }
Owners == { "A", "B" }

\* session.py: Session.__init__(port, step=0, max_step)
Session_init(port, ms) == [ port |-> port, step |-> 0, max_step |-> ms ]

\* an attribute of the class instead of the instance: one step for all Sessions
step_shared(ss, o) == ss["A"].step + ss["B"].step

\* self.step
step_of(ss, o) == ss[o].step

\* session.py: Session.__next__ of the Session of owner o: the token of the
\* current step, `return step, token`, the step one higher
Session_next(o) ==
    /\ Len(yields[o]) < StepBound
    /\ LET k == step_of(sessions, o)
           t == token(sessions[o].port, k, sessions[o].max_step)
       IN  /\ yields' = [yields EXCEPT ![o] = Append(@, <<k, t>>)]
           /\ sessions' = [sessions EXCEPT ![o].step = advance(k)]
    /\ UNCHANGED <<cache, hist, sessionVars, remoteVars, ioVars, threadVars,
                   ticks, cliVars, accepted>>

InitPair ==
    /\ InitLocal(1, 1, <<>>, [ t \in Threads |-> "idle" ])
    /\ ticks = 0
    /\ mainpc = ""
    /\ args = <<>>
    /\ exc = ""
    /\ exitcode = None
    /\ \E port \in Ports, ms \in MaxSteps :
         sessions = [ o \in Owners |-> Session_init(port, ms) ]
    /\ yields = [ o \in Owners |-> <<>> ]
    /\ accepted = <<>>

NextPair == \E o \in Owners : Session_next(o)

SpecPair == InitPair /\ [][NextPair]_vars

\* C14: the k-th result of the one Session is the k-th result of the other,
\* and it is the pair of k - 1 and the token of (port, k - 1, max_step).
C14_TokenDeterminism ==
    \A k \in 1..StepBound :
        /\ (k <= Len(yields["A"]) /\ k <= Len(yields["B"])) =>
              yields["A"][k] = yields["B"][k]
        /\ \A o \in Owners : k <= Len(yields[o]) =>
              yields[o][k] = <<k - 1, token(sessions[o].port, k - 1, sessions[o].max_step)>>

\* both Sessions have gone past max_step, one of them further than the other
C14_Witness ==
    /\ Len(yields["A"]) > sessions["A"].max_step
    /\ Len(yields["B"]) > Len(yields["A"])

(***************************************************************************)
(* SpecMain: the command line tool.  __main__.main parses the arguments,   *)
(* calls run with them inside its try statement and returns; the console  *)
(* script of setup.py is sys.exit(main()).                                 *)
(***************************************************************************)
\* --check, --listen and --port of the command line (port: absent, 0, or set)
ArgSets == [ check : BOOLEAN, listen : BOOLEAN, port : { None, Some(0), Some(5000) } ]

\* Python truth value of args.port: None and 0 are false
PortGiven(a) == a.port # None /\ a.port # Some(0)

\* run() ends with exception e
Run_raise(e) ==
    /\ exc' = e
    /\ mainpc' = "raised"

\* run: `if check:` store a probe, read it back, assert m == data.  The
\* requests may fail (OSError), the token may be taken (a KeyError), the
\* target may not reflect the probe (AssertionError), the user may interrupt.
Run_check ==
    /\ mainpc = "parsed"
    /\ IF args.check
       THEN \E o \in { "ok", "OSError", "KeyError", "AssertionError", "KeyboardInterrupt" } :
                IF o = "ok" THEN mainpc' = "setup" /\ exc' = exc ELSE Run_raise(o)
       ELSE mainpc' = "setup" /\ exc' = exc
    /\ UNCHANGED <<cache, hist, sessionVars, remoteVars, ioVars, threadVars,
                   ticks, args, exitcode, pairVars, accepted>>

\* run: the Session, Reader and Writer are built; `if listen:` assert port,
\* `elif port:`, `else:` choose where the input comes from
Run_route ==
    /\ mainpc = "setup"
    /\ IF args.listen
       THEN IF PortGiven(args)
            THEN mainpc' = "serve" /\ exc' = exc
            ELSE Run_raise("AssertionError")
       ELSE /\ mainpc' = IF PortGiven(args) THEN "client" ELSE "stdin"
            /\ exc' = exc
    /\ UNCHANGED <<cache, hist, sessionVars, remoteVars, ioVars, threadVars,
                   ticks, args, exitcode, pairVars, accepted>>

\* run: server.serve_forever() inside the CacheIO context; it ends only by
\* an exception (the bind, a request of the stream, the user's interrupt)
Run_serve ==
    /\ mainpc = "serve"
    /\ \E o \in { "OSError", "KeyboardInterrupt" } : Run_raise(o)
    /\ UNCHANGED <<cache, hist, sessionVars, remoteVars, ioVars, threadVars,
                   ticks, args, exitcode, pairVars, accepted>>

\* run: one turn of `while True:` of the client and STDIN modes: data is
\* read and written to the stream, or the input has ended (break, the
\* context is left and run returns), or an exception leaves run
Run_transfer ==
    /\ mainpc \in { "client", "stdin" }
    /\ \E o \in { "data", "eof", "OSError", "KeyboardInterrupt" } :
         CASE o = "data" -> /\ nwrites < MaxWrites
                            /\ nwrites' = nwrites + 1
                            /\ UNCHANGED <<mainpc, exc>>
           [] o = "eof"  -> /\ mainpc' = "returned"
                            /\ UNCHANGED <<nwrites, exc>>
           [] OTHER      -> /\ Run_raise(o)
                            /\ nwrites' = nwrites
    /\ UNCHANGED <<cache, hist, sessionVars, remoteVars, ioVars,
                   pc, ctx, tok, tmp, acc, wdata, wi, pend, arg, calls,
                   ticks, args, exitcode, pairVars, accepted>>

\* main: the except clause that takes exception e
\*   except KeyboardInterrupt / except (AssertionError, OSError) / except Exception
handler(e) ==
    IF e = "KeyboardInterrupt" THEN "print"
    ELSE IF e \in { "AssertionError", "OSError" } THEN "log.error"
    ELSE "log.exception"

\* what main returns after the handler has run: no clause returns a value,
\* raises or calls sys.exit
main_returns(h) == None

\* sys.exit(value): None is status 0
sys_exit(v) == IF v = None THEN 0 ELSE v[1]

\* main: run() has returned or its exception was handled; main returns and
\* the console script exits with sys.exit(main())
Main_exit ==
    /\ mainpc \in { "returned", "raised" }
    /\ exitcode' = Some(sys_exit(main_returns(IF mainpc = "raised" THEN handler(exc) ELSE "")))
    /\ mainpc' = "exited"
    /\ UNCHANGED <<cache, hist, sessionVars, remoteVars, ioVars, threadVars,
                   ticks, args, exc, pairVars, accepted>>

InitMain ==
    /\ InitLocal(DEFAULT_CHUNK_SIZE, 1, <<>>, [ t \in Threads |-> "idle" ])
    /\ ticks = 0
    /\ mainpc = "parsed"
    /\ args \in ArgSets
    /\ exc = ""
    /\ exitcode = None
    /\ sessions = <<>>
    /\ yields = <<>>
    /\ accepted = <<>>

NextMain ==
    \/ Run_check
    \/ Run_route
    \/ Run_serve
    \/ Run_transfer
    \/ Main_exit

SpecMain == InitMain /\ [][NextMain]_vars

\* C13: the process ends with status 0 when the input ended or the user
\* interrupted, and with a status other than 0 when run() failed with an
\* OSError or an AssertionError.
C13_ExitStatus ==
    mainpc = "exited" =>
        /\ exc \in { "", "KeyboardInterrupt" } => exitcode = Some(0)
        /\ exc \in { "OSError", "AssertionError" } => exitcode # Some(0)

(***************************************************************************)
(* SpecErr: direct calls of readinto and write as in SpecSeq, against a    *)
(* target whose requests may fail: requests.get raises, or                 *)
(* r.raise_for_status() raises on a status of 400 and above.  Both are     *)
(* requests.RequestException, an OSError, raised before the cache status   *)
(* of the response is looked at.                                           *)
(***************************************************************************)
\* the outcome of a request that failed
TransportError == [ raised |-> "Transport", data |-> None ]

\* a request that failed may or may not have reached the cache and left a
\* cached response there
FailedRequest(c, query) == { c, request(c, query).cache }

\* cache.py: Cache.__getitem__ raises at requests.get / raise_for_status,
\* inside the try statement of readinto: no except clause matches
Reader_get_fails(t) ==
    /\ pc[t] = "req"
    /\ ctx[t] \in ReaderCtx
    /\ cache' \in FailedRequest(cache, [ key |-> tok[t] ])
    /\ hist' = [hist EXCEPT ![t] = Append(@, Req("reader", "get", tok[t], <<>>, TransportError))]
    /\ IF Reader_except(TransportError.raised)
       THEN Goto(t, "rd_ret") /\ calls' = calls
       ELSE Propagate(t, TransportError.raised, Len(hist[t]) + 1)
    /\ tok' = [tok EXCEPT ![t] = 0]
    /\ ctx' = [ctx EXCEPT ![t] = IF pc'[t] = "idle" THEN "" ELSE @]
    /\ arg' = IF pc'[t] = "idle" THEN <<>> ELSE arg
    /\ UNCHANGED <<otherVars, sessionVars, remoteVars, ioVars,
                   tmp, acc, wdata, wi, pend, nwrites>>

\* cache.py: Cache.__setitem__ raises at requests.get / raise_for_status,
\* inside the try statement of write: no except clause matches
Writer_set_fails(t) ==
    /\ pc[t] = "req"
    /\ ctx[t] \in WriterCtx
    /\ LET chunk == chunk_of(wdata[t], wi[t], chunk_size) IN
         /\ cache' \in FailedRequest(cache, [ key |-> tok[t], slot |-> urlsafe_b64encode(chunk) ])
         /\ hist' = [hist EXCEPT ![t] = Append(@, Req("writer", "set", tok[t], chunk, TransportError))]
    /\ IF Writer_except(TransportError.raised)
       THEN Goto(t, "next1") /\ calls' = calls
       ELSE Propagate(t, TransportError.raised, Len(hist[t]) + 1)
    /\ tok' = [tok EXCEPT ![t] = 0]
    /\ ctx' = [ctx EXCEPT ![t] = IF pc'[t] = "idle" THEN "" ELSE @]
    /\ arg' = IF pc'[t] = "idle" THEN <<>> ELSE arg
    /\ wdata' = [wdata EXCEPT ![t] = IF pc'[t] = "idle" THEN <<>> ELSE @]
    /\ wi' = [wi EXCEPT ![t] = IF pc'[t] = "idle" THEN 0 ELSE @]
    /\ UNCHANGED <<otherVars, sessionVars, remoteVars, ioVars,
                   tmp, acc, pend, nwrites>>

InitErr == InitWith(1, 1, << "_handle" >>, AllIdle)

NextErr ==
    \/ \E b \in Buffers : CallReadinto(b)
    \/ \E d \in SeqData : CallWrite(d)
    \/ PassStep("F")
    \/ Reader_rewind_load("F")
    \/ Reader_rewind_store("F")
    \/ Reader_get_fails("F")
    \/ Writer_set_fails("F")
    \/ RemoteSet

SpecErr == InitErr /\ [][NextErr]_vars

IsFailed(r) == r.raised = TransportError.raised

\* C21: a call of readinto or write ends with the transport error exactly
\* when one of its requests failed; the failed request is the last request
\* of the call; a readinto that failed left its buffer as it was; and the
\* subscribed consumer has been handed the payloads the sets met on occupied
\* tokens and nothing else.
C21_TransportErrorPropagates ==
    /\ \A i \in K :
         LET c == calls[i]
             rs == ReqsOf(c)
         IN  /\ (c.exc = TransportError.raised) <=> (\E k \in 1..Len(rs) : IsFailed(rs[k]))
             /\ \A k \in 1..Len(rs) : IsFailed(rs[k]) => k = Len(rs)
             /\ c.exc # "" => (c.ret = 0 /\ c.b1 = c.b0)
    /\ pc["F"] # "handle" => buffer = MetPayloads

\* a write has failed at the set that followed an occupied token carrying a
\* payload, and a readinto has failed
C21_Witness ==
    /\ \E i \in K :
         /\ calls[i].op = "write"
         /\ calls[i].exc = TransportError.raised
         /\ \E k \in 1..Len(ReqsOf(calls[i])) : CarriesPayload(ReqsOf(calls[i])[k])
    /\ \E i \in K : calls[i].op = "readinto" /\ calls[i].exc = TransportError.raised

(***************************************************************************)
(* C22 (SpecPair): wrap-around.  Of the results a Session has returned,    *)
(* two carry the same token exactly when their steps are equal modulo      *)
(* max_step: the token of step s + max_step is the token of step s, and    *)
(* steps that differ modulo max_step have tokens of different numbers.     *)
(***************************************************************************)
C22_WrapAround ==
    \A o \in Owners : \A i, j \in 1..Len(yields[o]) :
        LET ms == sessions[o].max_step IN
        /\ (yields[o][j][1] = yields[o][i][1] + ms) => yields[o][j][2] = yields[o][i][2]
        /\ (yields[o][i][1] % ms # yields[o][j][1] % ms) => yields[o][i][2] # yields[o][j][2]

\* a Session has gone through all its max_step tokens twice
C22_Witness ==
    \E o \in Owners :
        /\ sessions[o].max_step > 1
        /\ Len(yields[o]) >= 2 * sessions[o].max_step

(***************************************************************************)
(* C23 (SpecSeq): a Reader pass reads through holes.                       *)
(***************************************************************************)
\* the get was a HIT that carried no payload
IsHole(r) == r.op = "get" /\ r.raised = "" /\ ~Truthy(r.data)

\* C23: in every readinto, a get that was a HIT without a payload is followed
\* by a get of the next token, and only such gets are followed by another;
\* the call ends at the first MISS or at the first payload, and a payload
\* found beyond a hole is returned in the buffer when the buffer has room.
C23_ReadsThroughHoles ==
    \A i \in K : calls[i].op = "readinto" =>
        LET c == calls[i]
            rs == ReqsOf(c)
            n == Len(rs)
        IN  /\ n > 0
            /\ \A k \in 1..n :
                 /\ IsHole(rs[k]) =>
                      (k < n /\ rs[k + 1].op = "get" /\ rs[k + 1].tok = rs[k].tok + 1)
                 /\ k < n => IsHole(rs[k])
            /\ IsMiss(rs[n]) \/ HasPayload(rs[n])
            /\ (HasPayload(rs[n]) /\ RoomFor(c, rs[n].data[1])) =>
                 /\ c.ret = Len(rs[n].data[1])
                 /\ SubSeq(c.b1, 1, c.ret) = rs[n].data[1]

\* a readinto has met a hole at the step it was called at and returned the
\* remote peer's chunk stored beyond it
C23_Witness ==
    \E i \in K :
        /\ calls[i].op = "readinto"
        /\ Len(ReqsOf(calls[i])) >= 2
        /\ IsHole(ReqsOf(calls[i])[1])
        /\ calls[i].ret > 0
        /\ \E n \in 1..Len(RemoteChunks) : SubSeq(calls[i].b1, 1, calls[i].ret) = RemoteChunks[n]

(***************************************************************************)
(* C24 (Spec): no self-echo.                                               *)
(***************************************************************************)
\* the bytes the local peer's Writer has stored on the cache (the bytes of
\* the local and of the remote peer's data are different)
StoredReqs == { LocalReqs[i] : i \in { j \in 1..Len(LocalReqs) : IsOkSet(LocalReqs[j]) } }
LocalStored == UNION { { r.val[k] : k \in 1..Len(r.val) } : r \in StoredReqs }

\* C24: the sink of the local stream is never given a byte that the Writer
\* of the same stream stored on the cache.
C24_NoSelfEcho == \A i \in 1..Len(Sunk) : Sunk[i] \notin LocalStored

(***************************************************************************)
(* C25 (SpecSeq): probe before pass.  The passes of the peer run one at a  *)
(* time in the one thread F; the peer is between passes when F is idle.    *)
(***************************************************************************)
\* the token of step s has been requested by the local peer
Requested(s) == \E i \in H : log[i].tok = token(Port, s, max_step)

\* the peer is between passes
BetweenPasses == pc["F"] = "idle"

\* the local peer's tokens that hold a chunk of the remote peer
HoldsRemote(s) ==
    \E n \in 1..Len(RemoteChunks) :
        cache[token(Port, s, max_step)] =
            Some([ key |-> token(Port, s, max_step), slot |-> urlsafe_b64encode(RemoteChunks[n]) ])

NeedsBufferLock(t) ==
    \/ pc[t] = "handle" /\ consumers # <<>>
    \/ t = "P" /\ pc[t] = "p_loop" /\ ~is_set(event)

\* the next step of thread t takes the lock of the BufferedWriter
NeedsWriterLock(t) ==
    \/ t = "P" /\ pc[t] = "p_flush"
    \/ t = "F" /\ pc[t] = "f_close"

\* thread t cannot take its next step: the lock it needs is held, or it
\* joins a thread that has not ended
Blocked(t) ==
    \/ NeedsBufferLock(t) /\ lock # None
    \/ NeedsWriterLock(t) /\ wlock # None
    \/ t = "F" /\ pc[t] = "f_join" /\ ~joined(pc["P"])

\* C26: the two threads are never both blocked; a thread never waits for a
\* lock it holds itself; and the thread in __exit__'s join holds no lock.
C26_NoDeadlock ==
    /\ ~(Blocked("P") /\ Blocked("F"))
    /\ \A t \in Threads :
         /\ NeedsBufferLock(t) => lock # Some(t)
         /\ NeedsWriterLock(t) => wlock # Some(t)
    /\ pc["F"] = "f_join" => (lock # Some("F") /\ wlock # Some("F"))

\* the foreground write is inside the write side, its set has met a payload
\* and _handle waits for the collision-buffer lock the poll thread holds
\* during its read
C26_Witness ==
    /\ pc["F"] = "handle"
    /\ wlock = Some("F")
    /\ lock = Some("P")
    /\ ctx["P"] = "poll"

(***************************************************************************)
(* C27 (Spec): buffered writes are sent.                                   *)
(***************************************************************************)
\* the bytes that occur in s
BytesOf(s) == { s[i] : i \in 1..Len(s) }

\* how many times byte b occurs in s
Count(b, s) == Cardinality({ i \in 1..Len(s) : s[i] = b })

\* the bytes the Writer's successful sets have stored
StoredBytes ==
    Concat([ t \in 1..2 |->
        LET ok == OkSets(hist[IF t = 1 THEN "P" ELSE "F"]) IN
        Concat([ k \in 1..Len(ok) |-> ok[k].val ]) ])

\* thread t is flushing the write side through CacheWriter.write
Flushing(t) == ctx[t] \in WriterCtx

\* the accepted bytes that are not stored yet: what is left of the data of
\* the running flush and the data BufferedWriter.write has still to place,
\* or the bytes held in the buffer
Unsent ==
    IF \E t \in Threads : Flushing(t)
    THEN LET t == CHOOSE u \in Threads : Flushing(u) IN
         SubSeq(wdata[t], wi[t] + 1, Len(wdata[t]))
            \o (IF ctx[t] = "overflow" THEN arg ELSE <<>>)
    ELSE wbuf

\* C27: CacheIO.write itself makes no request; every accepted byte is either
\* stored by a successful set or still unsent, and nothing else is stored;
\* nothing is unsent when the context has exited, nor when the poll thread
\* comes to its wait after an iteration without inbound data.
C27_BufferedWritesSent ==
    /\ [](/\ \A b \in BytesOf(accepted \o StoredBytes \o Unsent) :
               Count(b, accepted) = Count(b, StoredBytes) + Count(b, Unsent)
          /\ Exited => Unsent = <<>>)
    /\ [][/\ accepted' # accepted => (cache' = cache /\ hist' = hist)
          /\ (pc["P"] # "p_wait" /\ pc'["P"] = "p_wait") => Unsent' = <<>>]_vars

\* the context has exited after two writes were accepted; the poll thread's
\* flush stored some of the bytes and the foreground thread the others
C27_Witness ==
    /\ Exited
    /\ nwrites >= 2
    /\ OkSets(hist["P"]) # <<>>
    /\ OkSets(hist["F"]) # <<>>

(***************************************************************************)
(* SpecWrite: direct calls of CacheWriter.write on a Session with a small  *)
(* max_step, against a cache on which other peers have left any of the     *)
(* max_step tokens of the channel occupied (by a probe, or by a chunk).    *)
(* Nothing expires and nobody else makes requests while the write runs;    *)
(* the calling thread keeps running.                                       *)
(***************************************************************************)
SmallMaxSteps == { 2, 3 }

\* the tokens of the channel for max_step ms
Ring(ms) == { token(Port, s, ms) : s \in 0..(ms - 1) }

\* what another peer has left at token t: nothing, a probe, or a chunk
LeftAt(t) ==
    { None,
      Some([ key |-> t ]),
      Some([ key |-> t, slot |-> urlsafe_b64encode(RemoteChunks[1]) ]) }

InitWrite ==
    /\ \E ms \in SmallMaxSteps :
         /\ max_step = ms
         /\ cache \in { c \in [ Ring(ms) -> UNION { LeftAt(t) : t \in Ring(ms) } ] :
                          \A t \in Ring(ms) : c[t] \in LeftAt(t) }
    /\ \E cs \in { 1, 2 } : chunk_size = cs
    /\ hist = [ t \in Threads |-> <<>> ]
    /\ step = 0
    /\ buffer_size = 1
    /\ rstep = 0
    /\ ridx = 0
    /\ buffer = <<>>
    /\ lock = None
    /\ wbuf = <<>>
    /\ wlock = None
    /\ event = FALSE
    /\ sink = <<>>
    /\ pc = AllIdle
    /\ ctx = [ t \in Threads |-> "" ]
    /\ tok = [ t \in Threads |-> 0 ]
    /\ tmp = [ t \in Threads |-> 0 ]
    /\ acc = [ t \in Threads |-> <<>> ]
    /\ wdata = [ t \in Threads |-> <<>> ]
    /\ wi = [ t \in Threads |-> 0 ]
    /\ pend = [ t \in Threads |-> None ]
    /\ arg = <<>>
    /\ nwrites = 0
    /\ consumers = << "_handle" >>
    /\ calls = <<>>
    /\ InitOther

\* the steps of the thread inside CacheWriter.write
WritePass ==
    \/ Session_next_token("F")
    \/ Session_next_load("F")
    \/ Session_next_store("F")
    \/ Writer_set("F")
    \/ Writer_handle("F")
    \/ Writer_return("F")

NextWrite ==
    \/ \E d \in SeqData : CallWrite(d)
    \/ WritePass

SpecWrite == InitWrite /\ [][NextWrite]_vars /\ WF_vars(WritePass)

\* the tokens that were occupied before the g-th request of call c: those
\* occupied now that no successful set from that request on has stored
OccAt(c, g) ==
    { t \in DOMAIN cache :
        /\ cache[t] # None
        /\ ~\E k \in (c.h0 + g)..Len(log) : IsOkSet(log[k]) /\ log[k].tok = t }

\* the number of consecutive occupied tokens from step s on
RECURSIVE Run(_, _)
Run(s, occ) ==
    IF s > StepBound \/ token(Port, s, max_step) \notin occ THEN 0
    ELSE 1 + Run(s + 1, occ)

\* the first request made for the chunk whose successful set is request k
GroupStart(rs, k) ==
    IF \E j \in 1..(k - 1) : IsOkSet(rs[j])
    THEN (CHOOSE j \in 1..(k - 1) :
             IsOkSet(rs[j]) /\ \A i \in (j + 1)..(k - 1) : ~IsOkSet(rs[i])) + 1
    ELSE 1

\* the chunks of the running write that are not stored yet, and the tokens
\* that are not occupied
ChunksLeft == (Len(wdata["F"]) - wi["F"] + chunk_size - 1) \div chunk_size
FreeTokens == { t \in DOMAIN cache : cache[t] = None }
Writing == pc["F"] # "idle"

\* C28: a write that has returned made, for each chunk, one set for every
\* consecutive occupied token from the step the chunk began at and one more
\* that stored it, each on the token of the next step; it began with at
\* least as many unoccupied tokens as it had chunks (with every token of
\* the channel occupied no write of data returns); and a running write for
\* whose remaining chunks unoccupied tokens are left does return.
C28_WriterTermination ==
    /\ [](\A i \in K :
            LET c == calls[i]
                rs == ReqsOf(c)
            IN  /\ \A k \in 1..Len(rs) :
                     /\ rs[k].tok = token(Port, c.step0 + k - 1, max_step)
                     /\ IsOkSet(rs[k]) =>
                          LET g == GroupStart(rs, k) IN
                          k - g + 1 = Run(c.step0 + g - 1, OccAt(c, g)) + 1
                /\ Len(OkSets(rs)) = Len(ChunksOf(c))
                /\ c.step1 = c.step0 + Len(rs)
                /\ Cardinality(DOMAIN cache) - Cardinality(OccAt(c, 1)) >= Len(ChunksOf(c)))
    /\ (Writing /\ Cardinality(FreeTokens) >= ChunksLeft) ~> ~Writing

\* a write of two chunks has returned after it met an occupied token, and a
\* second write is running with every token of the channel occupied, past
\* max_step
C28_Witness ==
    /\ \E i \in K :
         /\ Len(ChunksOf(calls[i])) = 2
         /\ Len(ReqsOf(calls[i])) > 2
    /\ Writing
    /\ wdata["F"] # <<>>
    /\ FreeTokens = {}
    /\ step > max_step

====
